---- MODULE Spec2Model ----
(***************************************************************************)
(* Model of the Flask todo application in src/main.py: the per-list        *)
(* in-memory state (_list_states), the id counters, the JSON files on      *)
(* disk, the request handlers (HTML and JSON API), set_data_file and       *)
(* reset_state.                                                            *)
(*                                                                         *)
(* Strings are sequences of chunks (a chunk is a whitespace " " or a run   *)
(* of non-whitespace characters), so that strip() and lower() are          *)
(* computed and not assumed.  JSON values are tagged records, so that the  *)
(* file format differs from the in-memory Todo and json.dumps/json.loads   *)
(* followed by int()/str()/bool() are conversions that can fail.           *)
(***************************************************************************)
EXTENDS Integers, Sequences, FiniteSets, TLC

VARIABLES
    LISTS,             \* configured list ids, in configuration order (main.py:61)
    data_dir,          \* global data_dir (main.py:23)
    legacy_data_file,  \* global legacy_data_file (main.py:24), NoPath for None
    _list_states,      \* global _list_states (main.py:22): list id -> state
    disk,              \* the file system: path -> file content
    proc,              \* "boot" (module import not finished), "running", "crashed"
    resp,              \* the last finished operation and its response
    issued,            \* per list: ids returned by a create since the list was last loaded
    everIssued,        \* per list: ids returned by a create since the last reset_state
    deleted,           \* per list: ids deleted since the list was last loaded
    threads            \* concurrent create_todo requests in flight (thread-per-request)

vars == <<LISTS, data_dir, legacy_data_file, _list_states, disk, proc, resp,
          issued, everIssued, deleted, threads>>

(***************************************************************************)
(* Bounds of the model.                                                    *)
(***************************************************************************)
\* creates are enabled while the list's id counter is at most MaxId
MaxId == 2

(***************************************************************************)
(* Strings.                                                                *)
(***************************************************************************)
WS == " "

RECURSIVE lstrip(_)
lstrip(s) == IF s # <<>> /\ Head(s) = WS THEN lstrip(Tail(s)) ELSE s

RECURSIVE rstrip(_)
rstrip(s) ==
    IF s # <<>> /\ s[Len(s)] = WS THEN rstrip(SubSeq(s, 1, Len(s) - 1)) ELSE s

\* str.strip()
strip(s) == rstrip(lstrip(s))

lower_chunk(c) ==
    CASE c = "Leerlauf" -> "leerlauf"
      [] c = "GEPLANT"  -> "geplant"
      [] c = "In"       -> "in"
      [] c = "None"     -> "none"
      [] c = "True"     -> "true"
      [] c = "False"    -> "false"
      [] c = "Bogus"    -> "bogus"
      [] OTHER          -> c

\* str.lower()
lower(s) == [i \in 1..Len(s) |-> lower_chunk(s[i])]

ALLOWED_STATES == {<<"leerlauf">>, <<"in", WS, "arbeit">>, <<"geplant">>}

normalize_state_lowered(value) ==
    LET normalized == lower(strip(value))
    IN  IF normalized \in ALLOWED_STATES THEN normalized ELSE <<"Leerlauf">>

normalize_state_padded(value) ==
    LET normalized == lower(strip(value))
    IN  IF normalized \in ALLOWED_STATES THEN <<WS>> \o value ELSE <<"Leerlauf">>

_normalize_state(value) ==
    LET normalized == lower(strip(value))
    IN  IF normalized \in ALLOWED_STATES THEN value ELSE <<"Leerlauf">>

_normalize_comment(value) == strip(value)

(***************************************************************************)
(* JSON values and Python's conversions of them.                           *)
(***************************************************************************)
JMissing == [t |-> "missing", i |-> 0, s |-> <<>>, b |-> FALSE]
JNull    == [t |-> "null",    i |-> 0, s |-> <<>>, b |-> FALSE]
JInt(n)  == [t |-> "int",     i |-> n, s |-> <<>>, b |-> FALSE]
JStr(x)  == [t |-> "str",     i |-> 0, s |-> x,    b |-> FALSE]
JBool(x) == [t |-> "bool",    i |-> 0, s |-> <<>>, b |-> x]

\* dict.get(key, default) / form.get(key, default)
Get(v, default) == IF v.t = "missing" THEN default ELSE v

\* dict.get(key): a missing key and a JSON null both give None
IsNone(v) == v.t \in {"missing", "null"}

Digits == 0..9

IsNumeral(s) == Len(s) = 1 /\ \E n \in Digits : ToString(n) = s[1]

\* str(x)
PyStr(v) ==
    CASE v.t = "str"  -> v.s
      [] v.t = "int"  -> <<ToString(v.i)>>
      [] v.t = "bool" -> IF v.b THEN <<"True">> ELSE <<"False">>
      [] OTHER        -> <<"None">>

\* bool(x)
PyBool(v) ==
    CASE v.t = "str"  -> v.s # <<>>
      [] v.t = "int"  -> v.i # 0
      [] v.t = "bool" -> v.b
      [] OTHER        -> FALSE

\* int(x): the value, or the exception it raises
PyInt(v) ==
    CASE v.t = "int"  -> [raised |-> "", val |-> v.i]
      [] v.t = "bool" -> [raised |-> "", val |-> IF v.b THEN 1 ELSE 0]
      [] v.t = "str"  ->
            IF IsNumeral(strip(v.s))
            THEN [raised |-> "",
                  val |-> CHOOSE n \in Digits : ToString(n) = strip(v.s)[1]]
            ELSE [raised |-> "ValueError", val |-> 0]
      [] OTHER        -> [raised |-> "TypeError", val |-> 0]

(***************************************************************************)
(* Todo records and the persisted format.                                  *)
(***************************************************************************)
Todo(id, title, done, state, comment) ==
    [id |-> id, title |-> title, done |-> done, state |-> state, comment |-> comment]

\* an element of a persisted JSON array: an object with (some of) the five keys,
\* or something that is not an object
JObject(id, title, done, state, comment) ==
    [isdict |-> TRUE, id |-> id, title |-> title, done |-> done,
     state |-> state, comment |-> comment]

JNotObject ==
    [isdict |-> FALSE, id |-> JMissing, title |-> JMissing, done |-> JMissing,
     state |-> JMissing, comment |-> JMissing]

\* _normalize_todo: the Todo, or the exception int() raises
_normalize_todo(raw) ==
    LET id == PyInt(Get(raw.id, JInt(0)))
    IN  [raised |-> id.raised,
         todo |-> Todo(id.val,
                       strip(PyStr(Get(raw.title, JStr(<<>>)))),
                       PyBool(Get(raw.done, JBool(FALSE))),
                       _normalize_state(PyStr(Get(raw.state, JStr(<<"Leerlauf">>)))),
                       _normalize_comment(PyStr(Get(raw.comment, JStr(<<>>)))))]

(***************************************************************************)
(* Files.  A file is absent, cannot be read (OSError), holds bytes that    *)
(* are not UTF-8, holds text that is not JSON (the empty text included),   *)
(* holds a JSON value that is not an array, or holds a JSON array.         *)
(***************************************************************************)
File(kind, items) == [kind |-> kind, items |-> items]

Absent == File("absent", <<>>)

NoPath == [dir |-> "", name |-> ""]

Path(dir, name) == [dir |-> dir, name |-> name]

Dirs == {"data", "tmp"}

ListNames == {"default", "work", "other"}

\* file names without the .json suffix: one per list id, and todos.json
FileNames == ListNames \cup {"todos"}

Paths == {Path(d, n) : d \in Dirs, n \in FileNames}

\* json.dumps(todos, ensure_ascii=False, indent=2)
json_dumps(todos) ==
    File("array",
         [i \in 1..Len(todos) |->
            JObject(JInt(todos[i].id), JStr(todos[i].title), JBool(todos[i].done),
                    JStr(todos[i].state), JStr(todos[i].comment))])

\* the generator of lines 123-125: the Todos of the object-shaped elements, in order,
\* or the first exception _normalize_todo raises
RECURSIVE normalize_all(_)
normalize_all(items) ==
    IF items = <<>> THEN [raised |-> "", todos |-> <<>>]
    ELSE LET rest == normalize_all(Tail(items))
             raw  == Head(items)
         IN  IF ~raw.isdict THEN rest
             ELSE LET n == _normalize_todo(raw)
                  IN  IF n.raised # "" THEN [raised |-> n.raised, todos |-> <<>>]
                      ELSE [raised |-> rest.raised,
                            todos |-> IF rest.raised # "" THEN <<>>
                                      ELSE <<n.todo>> \o rest.todos]

\* lines 117-127: the todos read from a file, or the exception that escapes
read_todos(file) ==
    CASE file.kind = "absent"       -> [raised |-> "", todos |-> <<>>]
      [] file.kind = "unreadable"   -> [raised |-> "", todos |-> <<>>]
      [] file.kind = "invalid_utf8" -> [raised |-> "UnicodeDecodeError", todos |-> <<>>]
      [] file.kind = "not_json"     -> [raised |-> "", todos |-> <<>>]
      [] file.kind = "not_array"    -> [raised |-> "", todos |-> <<>>]
      [] OTHER                      -> normalize_all(file.items)

RECURSIVE SeqMax(_, _)
SeqMax(s, default) ==
    IF s = <<>> THEN default
    ELSE LET m == SeqMax(Tail(s), Head(s)) IN IF Head(s) > m THEN Head(s) ELSE m

\* max((todo["id"] for todo in todos), default=0)
max_id(todos) == SeqMax([i \in 1..Len(todos) |-> todos[i].id], 0)

(***************************************************************************)
(* The program state as one value, so that helpers compose.                *)
(***************************************************************************)
NotLoaded == [loaded |-> FALSE, todos |-> <<>>, id_counter |-> 0, data_file |-> NoPath]

World(lists, dir, legacy, states, dk) ==
    [LISTS |-> lists, data_dir |-> dir, legacy_data_file |-> legacy,
     states |-> states, disk |-> dk]

W == World(LISTS, data_dir, legacy_data_file, _list_states, disk)

_default_list_id(w) == w.LISTS[1]

_list_data_file(w, list_id) ==
    IF w.legacy_data_file # NoPath /\ list_id = _default_list_id(w)
    THEN w.legacy_data_file
    ELSE Path(w.data_dir, list_id)

\* the first id a freshly loaded list hands out (lines 129, 132)
load_seed(todos) == max_id(todos) + 1

\* _load_from_file: the world with the list loaded, or the exception raised
_load_from_file(w, list_id) ==
    LET data_file == _list_data_file(w, list_id)
        r == read_todos(w.disk[data_file])
    IN  IF r.raised # "" THEN [raised |-> r.raised, w |-> w]
        ELSE [raised |-> "",
              w |-> [w EXCEPT !.states[list_id] =
                        [loaded |-> TRUE, todos |-> r.todos,
                         id_counter |-> load_seed(r.todos),
                         data_file |-> data_file]]]

ensure_reloads(w, list_id) == _load_from_file(w, list_id)

_ensure_list_loaded(w, list_id) ==
    IF w.states[list_id].loaded THEN [raised |-> "", w |-> w]
    ELSE _load_from_file(w, list_id)

\* _save_to_file
_save_to_file(w, list_id) ==
    LET state == w.states[list_id]
    IN  IF ~state.loaded THEN w
        ELSE [w EXCEPT !.disk[state.data_file] = json_dumps(state.todos)]

(***************************************************************************)
(* Helpers of the request handlers.                                        *)
(***************************************************************************)
Range(s) == {s[i] : i \in 1..Len(s)}

resolve_unchecked(w, listArg) ==
    LET list_id == IF listArg = "" THEN _default_list_id(w) ELSE listArg
        r == _ensure_list_loaded(w, list_id)
    IN  [raised |-> r.raised, w |-> r.w, list_id |-> list_id]

\* _resolve_list_id: listArg is the request's list parameter, "" when absent or empty
_resolve_list_id(w, listArg) ==
    LET list_id == IF listArg = "" \/ listArg \notin Range(w.LISTS)
                   THEN _default_list_id(w) ELSE listArg
        r == _ensure_list_loaded(w, list_id)
    IN  [raised |-> r.raised, w |-> r.w, list_id |-> list_id]

\* _get_list: the list is loaded when the handlers call it
_get_list(w, list_id) == w.states[list_id].todos

get_todo_or_last(w, list_id, todo_id) ==
    LET todos == w.states[list_id].todos
        hits  == {i \in 1..Len(todos) : todos[i].id = todo_id}
    IN  IF hits = {} THEN Len(todos) ELSE CHOOSE i \in hits : \A j \in hits : i <= j

\* _get_todo: the position of the first todo with that id, 0 for None
_get_todo(w, list_id, todo_id) ==
    LET todos == _get_list(w, list_id)
        hits  == {i \in 1..Len(todos) : todos[i].id = todo_id}
    IN  IF hits = {} THEN 0 ELSE CHOOSE i \in hits : \A j \in hits : i <= j

next_id_stuck(w, list_id) ==
    [id |-> w.states[list_id].id_counter, w |-> w]

next_id_recycle(w, list_id) ==
    [id |-> Len(w.states[list_id].todos) + 1,
     w  |-> [w EXCEPT !.states[list_id].id_counter = @ + 1]]

\* _next_id: next() of the list's itertools.count
_next_id(w, list_id) ==
    [id |-> w.states[list_id].id_counter,
     w  |-> [w EXCEPT !.states[list_id].id_counter = @ + 1]]

appended_front(w, list_id, todo) ==
    [w EXCEPT !.states[list_id].todos = <<todo>> \o @]

\* list.append
Appended(w, list_id, todo) ==
    [w EXCEPT !.states[list_id].todos = Append(@, todo)]

RemoveAt(s, i) == SubSeq(s, 1, i - 1) \o SubSeq(s, i + 1, Len(s))

removed_last(w, list_id, i) ==
    [w EXCEPT !.states[list_id].todos = SubSeq(@, 1, Len(@) - 1)]

\* list.remove(todo), todo being the element _get_todo found at position i
Removed(w, list_id, i) ==
    [w EXCEPT !.states[list_id].todos = RemoveAt(@, i)]

(***************************************************************************)
(* Requests and responses.                                                 *)
(***************************************************************************)
\* a request: the list parameter and the form fields or JSON body members
Request(list, title, done, state, comment) ==
    [list |-> list, title |-> title, done |-> done, state |-> state,
     comment |-> comment]

\* the last finished operation: its name, the list it resolved, the HTTP status
\* (302 for an HTML redirect, 500 for an exception that escapes, 0 for a call that
\* is not a request), the todo id it created or targeted, and the number of
\* write_text calls it made
Resp(op, list_id, status, id, writes) ==
    [op |-> op, list |-> list_id, status |-> status, id |-> id, writes |-> writes]

NoResp == Resp("", "", 0, 0, 0)

AllLists(x) == [l \in ListNames |-> x]

\* the ids a create returned: a list that this step loads starts a new record
IssuedAfter(w, list_id, ids) ==
    [l \in ListNames |->
        (IF _list_states[l].loaded THEN issued[l] ELSE {})
        \cup (IF l = list_id THEN ids ELSE {})]

EverIssuedAfter(list_id, ids) ==
    [l \in ListNames |-> everIssued[l] \cup (IF l = list_id THEN ids ELSE {})]

DeletedAfter(list_id, dels) ==
    [l \in ListNames |->
        (IF _list_states[l].loaded THEN deleted[l] ELSE {})
        \cup (IF l = list_id THEN dels ELSE {})]

\* the globals and the files become those of world w
SetWorld(w) ==
    /\ LISTS' = w.LISTS
    /\ data_dir' = w.data_dir
    /\ legacy_data_file' = w.legacy_data_file
    /\ _list_states' = w.states
    /\ disk' = w.disk

\* the step ends in world w with response r, having created the ids and deleted
\* the dels given
Finish(w, r, ids, dels) ==
    /\ LISTS' = w.LISTS
    /\ data_dir' = w.data_dir
    /\ legacy_data_file' = w.legacy_data_file
    /\ _list_states' = w.states
    /\ disk' = w.disk
    /\ resp' = r
    /\ issued' = IssuedAfter(w, r.list, ids)
    /\ everIssued' = EverIssuedAfter(r.list, ids)
    /\ deleted' = DeletedAfter(r.list, dels)
    /\ UNCHANGED <<proc, threads>>

title_unstripped(req) == PyStr(Get(req.title, JStr(<<>>)))

\* lines 215, 247, 276: the request's title, "" when it has none, stripped
request_title(req) == strip(PyStr(Get(req.title, JStr(<<>>))))

(***************************************************************************)
(* The HTML handlers.  Each starts with _resolve_list_id, whose result r   *)
(* is bound once: the list id, the world with that list loaded, or the     *)
(* exception the load raised (Flask answers 500, nothing was changed).     *)
(***************************************************************************)
\* POST /add
add_todo(req) ==
    /\ proc = "running"
    /\ \E r \in {_resolve_list_id(W, req.list)} :
       LET list_id == r.list_id
           title == request_title(req)
           state == _normalize_state(PyStr(Get(req.state, JStr(<<"Leerlauf">>))))
           comment == _normalize_comment(PyStr(Get(req.comment, JStr(<<>>))))
       IN  IF r.raised # ""
           THEN Finish(W, Resp("add_todo", list_id, 500, 0, 0), {}, {})
           ELSE IF title # <<>>
           THEN \E n \in {_next_id(r.w, list_id)} :
                    /\ n.id <= MaxId
                    /\ Finish(_save_to_file(
                                 Appended(n.w, list_id,
                                          Todo(n.id, title, FALSE, state, comment)),
                                 list_id),
                              Resp("add_todo", list_id, 302, n.id, 1), {n.id}, {})
           ELSE Finish(r.w, Resp("add_todo", list_id, 302, 0, 0), {}, {})

\* POST /toggle/<int:todo_id>
toggle_todo(req, todo_id) ==
    /\ proc = "running"
    /\ \E r \in {_resolve_list_id(W, req.list)} :
       \E i \in {_get_todo(r.w, r.list_id, todo_id)} :
       LET list_id == r.list_id
       IN  IF r.raised # ""
           THEN Finish(W, Resp("toggle_todo", list_id, 500, todo_id, 0), {}, {})
           ELSE IF i # 0
           THEN Finish(_save_to_file(
                          [r.w EXCEPT !.states[list_id].todos[i].done = ~@], list_id),
                       Resp("toggle_todo", list_id, 302, todo_id, 1), {}, {})
           ELSE Finish(r.w, Resp("toggle_todo", list_id, 302, todo_id, 0), {}, {})

\* lines 247-251: the todo after the form's fields were applied
html_updated(old, req) ==
    LET title == request_title(req)
    IN  [old EXCEPT
           !.title = IF title # <<>> THEN title ELSE @,
           !.state = _normalize_state(PyStr(Get(req.state, JStr(<<"Leerlauf">>)))),
           !.comment = _normalize_comment(PyStr(Get(req.comment, JStr(<<>>))))]

\* POST /update/<int:todo_id>
update_todo_html(req, todo_id) ==
    /\ proc = "running"
    /\ \E r \in {_resolve_list_id(W, req.list)} :
       \E i \in {_get_todo(r.w, r.list_id, todo_id)} :
       LET list_id == r.list_id
       IN  IF r.raised # ""
           THEN Finish(W, Resp("update_todo_html", list_id, 500, todo_id, 0), {}, {})
           ELSE IF i # 0
           THEN Finish(_save_to_file(
                          [r.w EXCEPT !.states[list_id].todos[i] = html_updated(@, req)],
                          list_id),
                       Resp("update_todo_html", list_id, 302, todo_id, 1), {}, {})
           ELSE Finish(r.w, Resp("update_todo_html", list_id, 302, todo_id, 0), {}, {})

\* POST /delete/<int:todo_id>
delete_todo(req, todo_id) ==
    /\ proc = "running"
    /\ \E r \in {_resolve_list_id(W, req.list)} :
       \E i \in {_get_todo(r.w, r.list_id, todo_id)} :
       LET list_id == r.list_id
       IN  IF r.raised # ""
           THEN Finish(W, Resp("delete_todo", list_id, 500, todo_id, 0), {}, {})
           ELSE IF i # 0
           THEN Finish(_save_to_file(Removed(r.w, list_id, i), list_id),
                       Resp("delete_todo", list_id, 302, todo_id, 1), {}, {todo_id})
           ELSE Finish(r.w, Resp("delete_todo", list_id, 302, todo_id, 0), {}, {})

(***************************************************************************)
(* The JSON API handlers.                                                  *)
(***************************************************************************)
\* GET /api/todos (and GET /, which reads the same list to render it)
list_todos(req) ==
    /\ proc = "running"
    /\ \E r \in {_resolve_list_id(W, req.list)} :
           IF r.raised # ""
           THEN Finish(W, Resp("list_todos", r.list_id, 500, 0, 0), {}, {})
           ELSE Finish(r.w, Resp("list_todos", r.list_id, 200, 0, 0), {}, {})

\* POST /api/todos
create_todo(req) ==
    /\ proc = "running"
    /\ \E r \in {_resolve_list_id(W, req.list)} :
       LET list_id == r.list_id
           title == request_title(req)
           state == _normalize_state(PyStr(Get(req.state, JStr(<<"Leerlauf">>))))
           comment == _normalize_comment(PyStr(Get(req.comment, JStr(<<>>))))
       IN  IF r.raised # ""
           THEN Finish(W, Resp("create_todo", list_id, 500, 0, 0), {}, {})
           ELSE IF title = <<>>
           THEN Finish(r.w, Resp("create_todo", list_id, 400, 0, 0), {}, {})
           ELSE \E n \in {_next_id(r.w, list_id)} :
                    /\ n.id <= MaxId
                    /\ Finish(_save_to_file(
                                 Appended(n.w, list_id,
                                          Todo(n.id, title, FALSE, state, comment)),
                                 list_id),
                              Resp("create_todo", list_id, 201, n.id, 1), {n.id}, {})

\* lines 306-315: the todo after the supplied members of the body were applied
patched(old, req) ==
    LET normalized_title == strip(PyStr(req.title))
    IN  [old EXCEPT
           !.title = IF ~IsNone(req.title) /\ normalized_title # <<>>
                     THEN normalized_title ELSE @,
           !.done = IF ~IsNone(req.done) THEN PyBool(req.done) ELSE @,
           !.state = IF ~IsNone(req.state)
                     THEN _normalize_state(PyStr(req.state)) ELSE @,
           !.comment = IF ~IsNone(req.comment)
                       THEN _normalize_comment(PyStr(req.comment)) ELSE @]

supplied_never(req) == FALSE

\* lines 316-321: whether the body supplied any of the four members
supplied(req) ==
    ~IsNone(req.title) \/ ~IsNone(req.done) \/ ~IsNone(req.state)
        \/ ~IsNone(req.comment)

\* PATCH /api/todos/<int:todo_id>
update_todo(req, todo_id) ==
    /\ proc = "running"
    /\ \E r \in {_resolve_list_id(W, req.list)} :
       \E i \in {_get_todo(r.w, r.list_id, todo_id)} :
       LET list_id == r.list_id
       IN  IF r.raised # ""
           THEN Finish(W, Resp("update_todo", list_id, 500, todo_id, 0), {}, {})
           ELSE IF i = 0
           THEN Finish(r.w, Resp("update_todo", list_id, 404, todo_id, 0), {}, {})
           ELSE \E w2 \in {[r.w EXCEPT !.states[list_id].todos[i] = patched(@, req)]} :
                IF supplied(req)
                THEN Finish(_save_to_file(w2, list_id),
                            Resp("update_todo", list_id, 200, todo_id, 1), {}, {})
                ELSE Finish(w2, Resp("update_todo", list_id, 200, todo_id, 0), {}, {})

\* DELETE /api/todos/<int:todo_id>
delete_todo_api(req, todo_id) ==
    /\ proc = "running"
    /\ \E r \in {_resolve_list_id(W, req.list)} :
       \E i \in {_get_todo(r.w, r.list_id, todo_id)} :
       LET list_id == r.list_id
       IN  IF r.raised # ""
           THEN Finish(W, Resp("delete_todo_api", list_id, 500, todo_id, 0), {}, {})
           ELSE IF i = 0
           THEN Finish(r.w, Resp("delete_todo_api", list_id, 404, todo_id, 0), {}, {})
           ELSE Finish(_save_to_file(Removed(r.w, list_id, i), list_id),
                       Resp("delete_todo_api", list_id, 204, todo_id, 1), {}, {todo_id})

(***************************************************************************)
(* set_data_file, reset_state and the module's import.                     *)
(***************************************************************************)
\* the step ends in world w after every list state was dropped
FinishCleared(w, r, ever) ==
    /\ LISTS' = w.LISTS
    /\ data_dir' = w.data_dir
    /\ legacy_data_file' = w.legacy_data_file
    /\ _list_states' = w.states
    /\ disk' = w.disk
    /\ resp' = r
    /\ issued' = AllLists({})
    /\ everIssued' = ever
    /\ deleted' = AllLists({})
    /\ UNCHANGED <<proc, threads>>

\* _list_states.clear()
Cleared(w) == [w EXCEPT !.states = AllLists(NotLoaded)]

\* 0, or 500 when an exception escaped
Outcome(raised) == IF raised # "" THEN 500 ELSE 0

\* set_data_file(path); path.parent is the path's dir
set_data_file(path) ==
    /\ proc = "running"
    /\ \E w1 \in {Cleared([W EXCEPT !.legacy_data_file = path,
                                    !.data_dir = path.dir])} :
       \E r \in {_ensure_list_loaded(w1, _default_list_id(w1))} :
          FinishCleared(r.w,
                        Resp("set_data_file", _default_list_id(w1),
                             Outcome(r.raised), 0, 0),
                        everIssued)

unlink_nothing(w, failing) == w

\* lines 181-187: every configured list's file is unlinked if it exists; an
\* unlink that raises OSError (the paths in failing) is ignored
unlink_all(w, failing) ==
    LET files == {_list_data_file(w, w.LISTS[k]) : k \in 1..Len(w.LISTS)}
    IN  [w EXCEPT !.disk = [p \in Paths |->
                              IF p \in files /\ p \notin failing THEN Absent
                              ELSE w.disk[p]]]

\* reset_state()
reset_state(failing) ==
    /\ proc = "running"
    /\ \E w1 \in {Cleared(unlink_all(W, failing))} :
       \E r \in {_ensure_list_loaded(w1, _default_list_id(w1))} :
          FinishCleared(r.w,
                        Resp("reset_state", _default_list_id(w1),
                             Outcome(r.raised), 0, 0),
                        AllLists({}))

\* lines 159-164 without TODO_DATA_FILE: the import loads the default list, and
\* fails when the load raises
import_main ==
    /\ proc = "boot"
    /\ \E r \in {_ensure_list_loaded(W, _default_list_id(W))} :
           /\ proc' = IF r.raised # "" THEN "crashed" ELSE "running"
           /\ _list_states' = r.w.states
           /\ resp' = Resp("import", _default_list_id(W), Outcome(r.raised), 0, 0)
           /\ UNCHANGED <<LISTS, data_dir, legacy_data_file, disk, issued,
                          everIssued, deleted, threads>>

\* lines 159-161 with TODO_DATA_FILE set: the import calls set_data_file(path)
import_main_data_file(path) ==
    /\ proc = "boot"
    /\ \E w1 \in {Cleared([W EXCEPT !.legacy_data_file = path,
                                    !.data_dir = path.dir])} :
       \E r \in {_ensure_list_loaded(w1, _default_list_id(w1))} :
          /\ proc' = IF r.raised # "" THEN "crashed" ELSE "running"
          /\ SetWorld(r.w)
          /\ resp' = Resp("import", _default_list_id(w1), Outcome(r.raised), 0, 0)
          /\ UNCHANGED <<issued, everIssued, deleted, threads>>

(***************************************************************************)
(* The sequential specification: the module is imported in an empty data   *)
(* directory with the fallback configuration (one list, "default"), then   *)
(* requests, set_data_file and reset_state run one at a time.              *)
(***************************************************************************)
NoThreads == <<>>

InitWith(lists, dk) ==
    /\ LISTS = lists
    /\ data_dir = "data"
    /\ legacy_data_file = NoPath
    /\ _list_states = AllLists(NotLoaded)
    /\ disk = dk
    /\ proc = "boot"
    /\ resp = NoResp
    /\ issued = AllLists({})
    /\ everIssued = AllLists({})
    /\ deleted = AllLists({})
    /\ threads = NoThreads

EmptyDisk == [p \in Paths |-> Absent]

Init == InitWith(<<"default">>, EmptyDisk)

TitleInputs == {JMissing, JStr(<<>>), JStr(<<WS>>), JStr(<<"a">>)}

\* requests without a list parameter that carry a title, and requests that name a
\* list the configuration does not know
Requests ==
    {Request("", t, JMissing, JMissing, JMissing) : t \in TitleInputs}
    \cup {Request("other", t, d, JMissing, JMissing) :
            t \in {JMissing, JStr(<<WS, "a", WS>>)}, d \in {JBool(TRUE), JBool(FALSE)}}

TodoIds == 1..MaxId

\* the default list's file, as a legacy path: set_data_file on it is a restart
DefaultFile == Path("data", "default")

Next ==
    \/ import_main
    \/ \E req \in Requests : add_todo(req)
    \/ \E req \in Requests, todo_id \in TodoIds : toggle_todo(req, todo_id)
    \/ \E req \in Requests, todo_id \in TodoIds : update_todo_html(req, todo_id)
    \/ \E req \in Requests, todo_id \in TodoIds : delete_todo(req, todo_id)
    \/ \E req \in Requests : list_todos(req)
    \/ \E req \in Requests : create_todo(req)
    \/ \E req \in Requests, todo_id \in TodoIds : update_todo(req, todo_id)
    \/ \E req \in Requests, todo_id \in TodoIds : delete_todo_api(req, todo_id)
    \/ set_data_file(DefaultFile)
    \/ \E failing \in {{}, {DefaultFile}} : reset_state(failing)

Spec == Init /\ [][Next]_vars

(***************************************************************************)
(* The load specification: the module is imported with a default-list file *)
(* that holds anything (written by an earlier run, by hand or by another   *)
(* tool), then requests and restarts follow.                               *)
(***************************************************************************)
\* longest persisted array, and longest in-memory sequence, that Init draws
MaxItems == 2

SeqsUpTo(S, n) == UNION {[1..k -> S] : k \in 0..n}

ItemMenu ==
    { JObject(JInt(1), JStr(<<"a">>), JBool(FALSE), JStr(<<"Leerlauf">>), JStr(<<>>)),
      JObject(JMissing, JMissing, JMissing, JMissing, JMissing),
      JObject(JStr(<<"x">>), JStr(<<"a">>), JBool(FALSE), JMissing, JMissing),
      JObject(JNull, JStr(<<"a">>), JMissing, JMissing, JMissing),
      JObject(JStr(<<WS, "2">>), JInt(5), JStr(<<"no">>), JNull, JStr(<<WS, "c">>)),
      JObject(JInt(-1), JStr(<<WS, "b", WS>>), JBool(TRUE), JStr(<<WS, "GEPLANT">>),
              JMissing),
      JNotObject }

FileMenu ==
    {Absent, File("unreadable", <<>>), File("invalid_utf8", <<>>),
     File("not_json", <<>>), File("not_array", <<>>)}
    \cup {File("array", items) : items \in SeqsUpTo(ItemMenu, MaxItems)}

InitLoad ==
    \E f \in FileMenu :
        InitWith(<<"default">>, [EmptyDisk EXCEPT ![DefaultFile] = f])

LoadRequest == Request("", JStr(<<"a">>), JMissing, JStr(<<"Bogus">>), JMissing)

LoadIds == 0..MaxId

NextLoad ==
    \/ import_main
    \/ list_todos(LoadRequest)
    \/ create_todo(LoadRequest)
    \/ \E todo_id \in LoadIds : toggle_todo(LoadRequest, todo_id)
    \/ \E todo_id \in LoadIds : delete_todo_api(LoadRequest, todo_id)
    \/ set_data_file(DefaultFile)

SpecLoad == InitLoad /\ [][NextLoad]_vars

(***************************************************************************)
(* The load-then-update specification: the module is imported with a       *)
(* default-list file that holds anything, then PATCH and POST /update      *)
(* requests with a blank title follow.                                     *)
(***************************************************************************)
BlankTitleRequests ==
    {Request("", t, d, JMissing, c) :
        t \in {JStr(<<>>), JStr(<<WS>>)},
        d \in {JMissing, JBool(TRUE)},
        c \in {JMissing, JStr(<<WS, "d">>)}}

NextLoadUpdate ==
    \/ import_main
    \/ \E req \in BlankTitleRequests, todo_id \in LoadIds : update_todo(req, todo_id)
    \/ \E req \in BlankTitleRequests, todo_id \in LoadIds :
          update_todo_html(req, todo_id)

SpecLoadUpdate == InitLoad /\ [][NextLoadUpdate]_vars

(***************************************************************************)
(* The round-trip specification: the default list holds any sequence of    *)
(* valid Todo records and its file is what _save_to_file wrote for it;     *)
(* toggles and deletes save again, set_data_file loads the file.           *)
(***************************************************************************)
ValidTodoMenu ==
    {Todo(id, <<"a">>, done, state, comment) :
        id \in {1, 2}, done \in BOOLEAN,
        state \in {<<"Leerlauf">>, <<WS, "GEPLANT">>},
        comment \in {<<>>, <<"c", WS, "c">>}}

LoadedWith(todos) ==
    [AllLists(NotLoaded) EXCEPT
        !["default"] = [loaded |-> TRUE, todos |-> todos,
                        id_counter |-> max_id(todos) + 1, data_file |-> DefaultFile]]

InitRoundTrip ==
    \E todos \in SeqsUpTo(ValidTodoMenu, MaxItems) :
        /\ LISTS = <<"default">>
        /\ data_dir = "data"
        /\ legacy_data_file = NoPath
        /\ _list_states = LoadedWith(todos)
        /\ disk = [EmptyDisk EXCEPT ![DefaultFile] = json_dumps(todos)]
        /\ proc = "running"
        /\ resp = NoResp
        /\ issued = AllLists({})
        /\ everIssued = AllLists({})
        /\ deleted = AllLists({})
        /\ threads = NoThreads

NextRoundTrip ==
    \/ set_data_file(DefaultFile)
    \/ \E todo_id \in 1..2 : toggle_todo(LoadRequest, todo_id)
    \/ \E todo_id \in 1..2 : delete_todo_api(LoadRequest, todo_id)

SpecRoundTrip == InitRoundTrip /\ [][NextRoundTrip]_vars

(***************************************************************************)
(* The concurrent specification: two POST /api/todos requests, each in its *)
(* own thread (Flask's development server is threaded), against the        *)
(* default list.  No lock is taken, so the threads interleave between the  *)
(* statements of create_todo and of _save_to_file; next() of the counter   *)
(* and list.append are single steps.  write_text is two steps: open()      *)
(* truncates the file, then the text is written from offset 0.             *)
(***************************************************************************)
Tids == {1, 2}

Thread(pc, req, list_id, id, text, status) ==
    [pc |-> pc, req |-> req, list_id |-> list_id, id |-> id, text |-> text,
     status |-> status]

Ghosts == <<proc, resp, issued, everIssued, deleted>>

\* lines 274-278: resolve the list, read the title, abort(400) when it is blank
ct_start(t) ==
    /\ proc = "running"
    /\ threads[t].pc = "start"
    /\ \E r \in {_resolve_list_id(W, threads[t].req.list)} :
          /\ SetWorld(IF r.raised # "" THEN W ELSE r.w)
          /\ threads' = [threads EXCEPT
                ![t].list_id = r.list_id,
                ![t].status = IF r.raised # "" THEN 500
                              ELSE IF request_title(threads[t].req) = <<>> THEN 400
                              ELSE 0,
                ![t].pc = IF r.raised # "" \/ request_title(threads[t].req) = <<>>
                          THEN "done" ELSE "next_id"]
    /\ UNCHANGED Ghosts

\* line 282: id=_next_id(list_id)
ct_next_id(t) ==
    /\ threads[t].pc = "next_id"
    /\ \E n \in {_next_id(W, threads[t].list_id)} :
          /\ SetWorld(n.w)
          /\ threads' = [threads EXCEPT ![t].id = n.id, ![t].pc = "append"]
    /\ UNCHANGED Ghosts

\* line 288: _get_list(list_id).append(todo)
ct_append(t) ==
    /\ threads[t].pc = "append"
    /\ LET req == threads[t].req
       IN  SetWorld(Appended(W, threads[t].list_id,
                Todo(threads[t].id, request_title(req), FALSE,
                     _normalize_state(PyStr(Get(req.state, JStr(<<"Leerlauf">>)))),
                     _normalize_comment(PyStr(Get(req.comment, JStr(<<>>)))))))
    /\ threads' = [threads EXCEPT ![t].pc = "dumps"]
    /\ UNCHANGED Ghosts

\* line 145: json.dumps(todos, ...) of the list as it is now
ct_dumps(t) ==
    /\ threads[t].pc = "dumps"
    /\ threads' = [threads EXCEPT
          ![t].text = json_dumps(_list_states[threads[t].list_id].todos),
          ![t].pc = "open"]
    /\ UNCHANGED <<LISTS, data_dir, legacy_data_file, _list_states, disk>>
    /\ UNCHANGED Ghosts

\* write_text, first half: open(path, "w") leaves an empty file
ct_open(t) ==
    /\ threads[t].pc = "open"
    /\ disk' = [disk EXCEPT ![_list_states[threads[t].list_id].data_file] =
                   File("not_json", <<>>)]
    /\ threads' = [threads EXCEPT ![t].pc = "write"]
    /\ UNCHANGED <<LISTS, data_dir, legacy_data_file, _list_states>>
    /\ UNCHANGED Ghosts

\* text written from offset 0 over what the file holds: a longer text that another
\* thread wrote since the open keeps its tail, and the file is no JSON
Overwritten(file, text) ==
    IF file.kind = "array" /\ Len(file.items) > Len(text.items)
    THEN File("not_json", <<>>)
    ELSE text

\* write_text, second half, and line 290: return jsonify(todo), 201
ct_write(t) ==
    /\ threads[t].pc = "write"
    /\ disk' = [disk EXCEPT ![_list_states[threads[t].list_id].data_file] =
                   Overwritten(@, threads[t].text)]
    /\ threads' = [threads EXCEPT ![t].pc = "done", ![t].status = 201]
    /\ UNCHANGED <<LISTS, data_dir, legacy_data_file, _list_states>>
    /\ UNCHANGED Ghosts

ConcRequests ==
    {Request("", JStr(t), JMissing, JMissing, c) :
        t \in {<<"a">>, <<WS, "b">>}, c \in {JMissing, JStr(<<"c">>)}}

\* the list as the import left it, or with one todo created before
InitConc ==
    \E reqs \in [Tids -> ConcRequests],
       todos \in {<<>>, <<Todo(1, <<"a">>, FALSE, <<"Leerlauf">>, <<>>)>>} :
        /\ LISTS = <<"default">>
        /\ data_dir = "data"
        /\ legacy_data_file = NoPath
        /\ _list_states = LoadedWith(todos)
        /\ disk = [EmptyDisk EXCEPT ![DefaultFile] =
                      IF todos = <<>> THEN Absent ELSE json_dumps(todos)]
        /\ proc = "running"
        /\ resp = NoResp
        /\ issued = AllLists({})
        /\ everIssued = AllLists({})
        /\ deleted = AllLists({})
        /\ threads = [t \in Tids |-> Thread("start", reqs[t], "", 0, Absent, 0)]

NextConc ==
    \E t \in Tids :
        \/ ct_start(t)
        \/ ct_next_id(t)
        \/ ct_append(t)
        \/ ct_dumps(t)
        \/ ct_open(t)
        \/ ct_write(t)

SpecConc == InitConc /\ [][NextConc]_vars

(***************************************************************************)
(* The update specification: the default list holds one todo, in a state   *)
(* other than the default and with a comment, and its file is what         *)
(* _save_to_file wrote.  PATCH and POST /update requests carry every       *)
(* string of at most MaxLen chunks as state, or a choice of the other      *)
(* members; set_data_file loads the file again, which applies              *)
(* _normalize_state to what an update stored.                              *)
(***************************************************************************)
\* longest state string, in chunks, that a request carries
MaxLen == 3

StateChunks == {WS, "Leerlauf", "In", "arbeit", "Bogus"}

StateStrings == SeqsUpTo(StateChunks, MaxLen)

StateRequests ==
    {Request("", JMissing, JMissing, JStr(x), JMissing) : x \in StateStrings}

FieldRequests ==
    {Request("", t, d, st, c) :
        t \in {JMissing, JStr(<<WS>>), JStr(<<WS, "b">>), JInt(5)},
        d \in {JMissing, JNull, JBool(TRUE), JBool(FALSE)},
        st \in {JMissing, JStr(<<"Leerlauf">>), JStr(<<WS, "Leerlauf">>)},
        c \in {JMissing, JStr(<<WS, "d">>)}}

UpdateRequests == StateRequests \cup FieldRequests

InitUpdate ==
    \E todos \in {<<Todo(1, <<"a">>, FALSE, <<"GEPLANT">>, <<"c">>)>>} :
        /\ LISTS = <<"default">>
        /\ data_dir = "data"
        /\ legacy_data_file = NoPath
        /\ _list_states = LoadedWith(todos)
        /\ disk = [EmptyDisk EXCEPT ![DefaultFile] = json_dumps(todos)]
        /\ proc = "running"
        /\ resp = NoResp
        /\ issued = AllLists({})
        /\ everIssued = AllLists({})
        /\ deleted = AllLists({})
        /\ threads = NoThreads

NextUpdate ==
    \/ \E req \in UpdateRequests : update_todo(req, 1)
    \/ \E req \in UpdateRequests : update_todo_html(req, 1)
    \/ set_data_file(DefaultFile)

SpecUpdate == InitUpdate /\ [][NextUpdate]_vars

\* the same list, with the requests that choose among the members only
NextFields ==
    \/ \E req \in FieldRequests : update_todo(req, 1)
    \/ \E req \in FieldRequests : update_todo_html(req, 1)

SpecFields == InitUpdate /\ [][NextFields]_vars

(***************************************************************************)
(* The lists specification: config.yaml configures two lists, "default"    *)
(* and "work"; the module is imported without TODO_DATA_FILE, or with it   *)
(* naming a file of the data directory.  Requests name no list, a          *)
(* configured list, or a list the configuration does not know.             *)
(***************************************************************************)
TwoLists == <<"default", "work">>

InitLists == InitWith(TwoLists, EmptyDisk)

LegacyFiles == {Path("data", "todos"), Path("data", "work")}

ListRequests ==
    {Request(l, JStr(<<"a">>), JMissing, JMissing, JMissing) :
        l \in {"", "default", "work", "other"}}

NextLists ==
    \/ import_main
    \/ \E path \in LegacyFiles : import_main_data_file(path)
    \/ \E req \in ListRequests : list_todos(req)
    \/ \E req \in ListRequests : create_todo(req)
    \/ \E req \in ListRequests, todo_id \in TodoIds : update_todo(req, todo_id)
    \/ \E req \in ListRequests, todo_id \in TodoIds : delete_todo_api(req, todo_id)

SpecLists == InitLists /\ [][NextLists]_vars

(***************************************************************************)
(* Vocabulary of the properties.                                           *)
(***************************************************************************)
CreateOps == {"add_todo", "create_todo"}

HtmlIdOps == {"toggle_todo", "update_todo_html", "delete_todo"}

ApiIdOps == {"update_todo", "delete_todo_api"}

CrudOps == CreateOps \cup HtmlIdOps \cup ApiIdOps

Todos(l) == _list_states[l].todos

IdSeq(l) == [i \in 1..Len(Todos(l)) |-> Todos(l)[i].id]

Ids(l) == Range(IdSeq(l))

\* the step is a create that succeeded (it is the only create that writes)
CreatedStep == resp'.op \in CreateOps /\ resp'.writes = 1

\* the step is a request that targets a todo id of a list that was loaded
IdStep(ops) ==
    resp'.op \in ops /\ resp'.status # 500 /\ _list_states[resp'.list].loaded

\* a string that is empty or whitespace only
Blank(x) == \A i \in 1..Len(x) : x[i] = WS

BlankTitle(req) == req.title.t = "missing" \/ (req.title.t = "str" /\ Blank(req.title.s))

(***************************************************************************)
(* C1. Between two loads of a list, every successful create (POST /add or  *)
(* POST /api/todos with a non-blank title) returns an id strictly greater  *)
(* than every id a create returned before on that list, deleted todos      *)
(* included, and the todo it appends carries that id.                      *)
(***************************************************************************)
C1_CreateIdsIncrease ==
    [][\A l \in ListNames :
         CreatedStep /\ resp'.list = l =>
            /\ \A j \in issued[l] : resp'.id > j
            /\ Todos(l)' = Append(Todos(l), Todos(l)'[Len(Todos(l)')])
            /\ Todos(l)'[Len(Todos(l)')].id = resp'.id]_vars

\* a create that follows an earlier create whose todo was deleted since
C1_Witness ==
    /\ resp.op \in CreateOps /\ resp.writes = 1
    /\ \E j \in issued[resp.list] : j < resp.id /\ j \notin Ids(resp.list)

(***************************************************************************)
(* C2. An id once assigned to a todo of a list is never assigned to        *)
(* another todo of that list, also after the first todo was deleted and    *)
(* the list was loaded again from its file (set_data_file, a restart).     *)
(***************************************************************************)
C2_IdNeverReused ==
    [][CreatedStep => resp'.id \notin everIssued[resp'.list]]_vars

(***************************************************************************)
(* C3. No two todos of a list's in-memory sequence have the same id, and   *)
(* no create, toggle, update or delete changes the id of an existing todo: *)
(* the sequence of ids stays as it is, gains the created id at its end, or *)
(* loses the deleted id.                                                   *)
(***************************************************************************)
UniqueIds ==
    \A l \in ListNames :
        \A i, j \in 1..Len(Todos(l)) : i # j => Todos(l)[i].id # Todos(l)[j].id

IdsKept ==
    \A l \in ListNames :
        IdStep(CrudOps) /\ resp'.list = l =>
            \/ IdSeq(l)' = IdSeq(l)
            \/ CreatedStep /\ IdSeq(l)' = Append(IdSeq(l), resp'.id)
            \/ /\ resp'.op \in {"delete_todo", "delete_todo_api"}
               /\ \E k \in 1..Len(IdSeq(l)) :
                     IdSeq(l)[k] = resp'.id /\ IdSeq(l)' = RemoveAt(IdSeq(l), k)

C3_IdsUniqueAndImmutable == []UniqueIds /\ [][IdsKept]_vars

\* an update or toggle has just changed a todo of a list that holds two
C3_Witness ==
    /\ resp.op \in {"toggle_todo", "update_todo", "update_todo_html"}
    /\ resp.writes = 1
    /\ Len(Todos(resp.list)) >= 2

(***************************************************************************)
(* C4. A create whose title is missing, empty or whitespace only has no    *)
(* effect: the list states (sequences and id counters) and the files are   *)
(* unchanged and nothing is written; POST /api/todos answers 400 and       *)
(* POST /add redirects.                                                    *)
(***************************************************************************)
C4_BlankCreateRejected ==
    [][\A req \in Requests :
         BlankTitle(req) =>
            /\ create_todo(req) =>
                  /\ UNCHANGED <<_list_states, disk>>
                  /\ resp'.status = 400 /\ resp'.writes = 0
            /\ add_todo(req) =>
                  /\ UNCHANGED <<_list_states, disk>>
                  /\ resp'.status = 302 /\ resp'.writes = 0]_vars

\* POST /api/todos was just refused on a list that holds a todo
C4_Witness ==
    /\ resp.op = "create_todo" /\ resp.status = 400
    /\ Len(Todos(resp.list)) >= 1

(***************************************************************************)
(* C5. Once an id was deleted from a list, and until the list is loaded    *)
(* again or reset, no todo has that id; toggle, update and delete of it    *)
(* answer 404 (API) or redirect (HTML) and leave the list states and the   *)
(* files unchanged; and deleting the only todo leaves the list empty.      *)
(***************************************************************************)
DeletedStayGone ==
    \A l \in ListNames : \A i \in deleted[l] : _get_todo(W, l, i) = 0

DeletedIsNotFound ==
    \A l \in ListNames :
        /\ IdStep(HtmlIdOps \cup ApiIdOps)
        /\ resp'.list = l
        /\ resp'.id \in deleted[l]
        => /\ resp'.status = IF resp'.op \in ApiIdOps THEN 404 ELSE 302
           /\ resp'.writes = 0
           /\ UNCHANGED <<_list_states, disk>>

DeleteOfOnlyTodoEmpties ==
    \A l \in ListNames :
        /\ IdStep({"delete_todo", "delete_todo_api"})
        /\ resp'.list = l
        /\ resp'.writes = 1
        /\ Len(Todos(l)) = 1
        => /\ Todos(l)' = <<>>
           /\ disk'[_list_states[l].data_file] = json_dumps(<<>>)

C6_UnknownIdChangesNothing ==
    [][\A l \in ListNames :
         /\ IdStep({"toggle_todo", "update_todo_html", "update_todo"})
         /\ resp'.list = l
         /\ resp'.id \notin Ids(l)
         => /\ UNCHANGED <<_list_states, disk>>
            /\ resp'.writes = 0
            /\ resp'.status = IF resp'.op = "update_todo" THEN 404 ELSE 302]_vars

\* PATCH of an id the list does not hold was just answered 404, the list not empty
C6_Witness ==
    /\ resp.op = "update_todo" /\ resp.status = 404
    /\ Len(Todos(resp.list)) >= 1
    /\ resp.id \notin Ids(resp.list)

(***************************************************************************)
(* C8. After reset_state the default list's in-memory sequence is empty,   *)
(* the next create receives id 1, the previous file content is gone, and   *)
(* the backing file exists and holds an empty JSON array.                  *)
(***************************************************************************)
C8_ResetWritesEmptyArray ==
    [][resp'.op = "reset_state" =>
         \A l \in ListNames :
            l = resp'.list =>
               /\ Todos(l)' = <<>>
               /\ _list_states'[l].id_counter = 1
               /\ disk'[_list_states'[l].data_file] = json_dumps(<<>>)]_vars

(***************************************************************************)
(* C8, amended. reset_state writes no file: every configured list's file   *)
(* whose unlink did not fail is absent afterwards, and a file whose unlink *)
(* failed keeps its content.  Only the default list is loaded afterwards;  *)
(* when its file is absent, its in-memory sequence is empty and the next   *)
(* create receives id 1.                                                   *)
(***************************************************************************)
ConfiguredFiles == {_list_data_file(W, LISTS[k]) : k \in 1..Len(LISTS)}

C8_ResetDeletesFiles ==
    [][\A failing \in SUBSET ConfiguredFiles :
         reset_state(failing) =>
            /\ \A p \in Paths :
                  disk'[p] = IF p \in ConfiguredFiles \ failing THEN Absent ELSE disk[p]
            /\ \A l \in ListNames :
                  _list_states'[l].loaded <=> l = LISTS[1]
            /\ disk'[_list_data_file(W, LISTS[1])] = Absent =>
                  /\ _list_states'[LISTS[1]].todos = <<>>
                  /\ _list_states'[LISTS[1]].id_counter = 1]_vars

\* reset_state has just run and left the default list empty with no file
C8_Witness ==
    /\ resp.op = "reset_state"
    /\ Todos(resp.list) = <<>>
    /\ _list_states[resp.list].id_counter = 1
    /\ disk[_list_states[resp.list].data_file] = Absent

(***************************************************************************)
(* C9. Loading a list never fails, whatever the file holds: an absent or   *)
(* unreadable file, text that is not JSON and JSON that is not an array    *)
(* give an empty list with next id 1; an array gives one todo per          *)
(* object-shaped element, wrongly typed fields being coerced.              *)
(***************************************************************************)
NumObjects(items) == Cardinality({i \in 1..Len(items) : items[i].isdict})

C9_LoadNeverFails ==
    /\ proc # "crashed"
    /\ resp.status # 500
    /\ resp.op = "import" =>
          LET f == disk[DefaultFile]
              st == _list_states["default"]
          IN  /\ st.loaded
              /\ f.kind # "array" => st.todos = <<>> /\ st.id_counter = 1
              /\ f.kind = "array" => Len(st.todos) = NumObjects(f.items)

(***************************************************************************)
(* C10. Round trip: when the default list holds valid Todo records         *)
(* (positive id, non-empty stripped title, boolean done, a state of the    *)
(* allowed set up to case and surrounding whitespace, stripped comment)    *)
(* and its file is what _save_to_file wrote for them, loading the file     *)
(* gives the same sequence: same length, same order, every field equal.    *)
(***************************************************************************)
ValidTodo(todo) ==
    /\ todo.id > 0
    /\ todo.title # <<>> /\ strip(todo.title) = todo.title
    /\ todo.done \in BOOLEAN
    /\ lower(strip(todo.state)) \in ALLOWED_STATES
    /\ strip(todo.comment) = todo.comment

AllValid(todos) == \A i \in 1..Len(todos) : ValidTodo(todos[i])

C10_SaveLoadRoundTrip ==
    [][/\ set_data_file(DefaultFile)
       /\ _list_states["default"].loaded
       /\ AllValid(Todos("default"))
       /\ disk[DefaultFile] = json_dumps(Todos("default"))
       => /\ resp'.status = 0
          /\ Todos("default")' = Todos("default")]_vars

\* the file of two valid todos, one done and one in a state other than the
\* default, was just loaded
C10_Witness ==
    /\ resp.op = "set_data_file"
    /\ Len(Todos("default")) = 2
    /\ AllValid(Todos("default"))
    /\ disk[DefaultFile] = json_dumps(Todos("default"))
    /\ \E i, j \in 1..2 :
          /\ Todos("default")[i].done
          /\ Todos("default")[j].state # <<"Leerlauf">>
          /\ Todos("default")[j].comment # <<>>

(***************************************************************************)
(* C7. Two concurrent creates with non-blank titles on the same list both  *)
(* succeed with distinct ids and, once both have finished, the persisted   *)
(* file contains both todos.                                               *)
(***************************************************************************)
FileIds(file) ==
    IF file.kind = "array" /\ read_todos(file).raised = ""
    THEN {read_todos(file).todos[i].id : i \in 1..Len(read_todos(file).todos)}
    ELSE {}

C7_ConcurrentCreatesPersisted ==
    (\A t \in Tids : threads[t].pc = "done") =>
        /\ \A t \in Tids : threads[t].status = 201
        /\ threads[1].id # threads[2].id
        /\ \A t \in Tids :
              /\ threads[t].id \in Ids(threads[t].list_id)
              /\ threads[t].id
                    \in FileIds(disk[_list_states[threads[t].list_id].data_file])

(***************************************************************************)
(* C11. _normalize_state is idempotent: the state an update stores, which  *)
(* is _normalize_state of the string the request carried (allowed in any   *)
(* casing, padded with whitespace, or not allowed), is returned unchanged  *)
(* by _normalize_state; the default "Leerlauf", returned for a string that *)
(* is not allowed, is itself returned unchanged; and loading the file,     *)
(* which normalizes the stored state a second time, keeps it.              *)
(***************************************************************************)
StoredStatesFixed ==
    \A l \in ListNames : \A i \in 1..Len(Todos(l)) :
        _normalize_state(Todos(l)[i].state) = Todos(l)[i].state

DefaultStateFixed ==
    \A x \in StateStrings :
        lower(strip(x)) \notin ALLOWED_STATES =>
            /\ _normalize_state(x) = <<"Leerlauf">>
            /\ _normalize_state(_normalize_state(x)) = _normalize_state(x)

ReloadKeepsStates ==
    resp'.op = "set_data_file" =>
        /\ Len(Todos("default")') = Len(Todos("default"))
        /\ \A i \in 1..Len(Todos("default")) :
              Todos("default")'[i].state = Todos("default")[i].state

C11_NormalizeStateIdempotent ==
    /\ [](StoredStatesFixed /\ DefaultStateFixed)
    /\ [][ReloadKeepsStates]_vars

\* a padded allowed state that an update stored was just loaded from the file
C11_Witness ==
    /\ resp.op = "set_data_file"
    /\ Len(Todos("default")) = 1
    /\ Todos("default")[1].state = <<WS, "Leerlauf", WS>>

(***************************************************************************)
(* C12. _resolve_list_id gives the requested list id when it is a          *)
(* configured one, and the default list id when the request names no list  *)
(* or one that is not configured.  In every state, only configured lists   *)
(* have an in-memory state, each with the data file _list_data_file gives  *)
(* for it, and every file that exists is the data file of a configured     *)
(* list.                                                                   *)
(***************************************************************************)
ResolvedList(req) == IF req.list \in Range(LISTS) THEN req.list ELSE LISTS[1]

HandlerOf(req) ==
    \/ list_todos(req)
    \/ create_todo(req)
    \/ \E todo_id \in TodoIds :
          \/ update_todo(req, todo_id)
          \/ delete_todo_api(req, todo_id)

ResolvesToConfigured ==
    \A req \in ListRequests : HandlerOf(req) => resp'.list = ResolvedList(req)

OnlyConfiguredLists ==
    /\ \A l \in ListNames :
          _list_states[l].loaded =>
             /\ l \in Range(LISTS)
             /\ _list_states[l].data_file = _list_data_file(W, l)
    /\ \A p \in Paths : disk[p] # Absent => p \in ConfiguredFiles

C12_ResolvesToConfiguredList ==
    []OnlyConfiguredLists /\ [][ResolvesToConfigured]_vars

\* a create that named a list the configuration does not know was just stored in
\* the default list, the list "work" being loaded and holding a todo as well
C12_Witness ==
    /\ resp.op = "create_todo" /\ resp.status = 201 /\ resp.list = "default"
    /\ ~_list_states["other"].loaded
    /\ _list_states["work"].loaded /\ Len(Todos("work")) >= 1
    /\ disk[Path("data", "other")] = Absent

(***************************************************************************)
(* C13. A create, toggle, update or delete on a configured list leaves     *)
(* every other configured list untouched: its in-memory state (sequence,   *)
(* id counter) and its backing file are unchanged, also when the default   *)
(* list uses the legacy file.                                              *)
(***************************************************************************)
C13_OtherListsUntouched ==
    [][\A a, b \in Range(LISTS) :
         a # b /\ resp'.op \in CrudOps /\ resp'.status # 500 /\ resp'.list = a =>
            /\ _list_states'[b] = _list_states[b]
            /\ disk'[_list_data_file(W, b)] = disk[_list_data_file(W, b)]]_vars

(***************************************************************************)
(* C17. After every completed operation, each loaded list's backing file   *)
(* loads to exactly the list's in-memory sequence (an absent file loads to *)
(* the empty sequence).                                                    *)
(***************************************************************************)
C17_MemoryMatchesDisk ==
    proc = "running" =>
        \A l \in ListNames :
            _list_states[l].loaded =>
                /\ read_todos(disk[_list_states[l].data_file]).raised = ""
                /\ read_todos(disk[_list_states[l].data_file]).todos = Todos(l)

(***************************************************************************)
(* C14. An update (POST /update or PATCH) of an existing todo whose title  *)
(* is empty or whitespace only keeps the todo's title, and still applies   *)
(* the other fields the request supplies (the comment, and done on the     *)
(* PATCH path); after the update the todo's title is not empty.            *)
(***************************************************************************)
BlankTitleKeepsTitle ==
    \A req \in BlankTitleRequests, todo_id \in LoadIds :
        /\ update_todo(req, todo_id) \/ update_todo_html(req, todo_id)
        /\ resp'.status \in {200, 302}
        /\ todo_id \in Ids("default")
        => LET i == CHOOSE k \in 1..Len(Todos("default")) :
                       /\ Todos("default")[k].id = todo_id
                       /\ \A j \in 1..(k - 1) : Todos("default")[j].id # todo_id
           IN  /\ Todos("default")'[i].title = Todos("default")[i].title
               /\ req.comment.t = "str" =>
                     Todos("default")'[i].comment = strip(req.comment.s)
               /\ resp'.op = "update_todo" /\ req.done.t = "bool" =>
                     Todos("default")'[i].done = req.done.b

TitleSetAfterUpdate ==
    resp'.op \in {"update_todo", "update_todo_html"} /\ resp'.status \in {200, 302} =>
        \A i \in 1..Len(Todos("default")') :
            Todos("default")'[i].id = resp'.id => Todos("default")'[i].title # <<>>

C14_BlankTitleKept == [][BlankTitleKeepsTitle /\ TitleSetAfterUpdate]_vars

(***************************************************************************)
(* C15. An update applies only the fields the request supplies: on the     *)
(* PATCH path and on the POST /update path alike, the title, done, state   *)
(* and comment that the request does not supply keep their values, and the *)
(* id is never changed.                                                    *)
(***************************************************************************)
\* the todo's fields that the request does not supply are those of old; a PATCH
\* member that is null counts as not supplied, and a form has no done field
UnsuppliedKept(old, new, req, isPatch) ==
    /\ new.id = old.id
    /\ req.title.t \in {"missing", "null"} => new.title = old.title
    /\ ~isPatch \/ req.done.t \in {"missing", "null"} => new.done = old.done
    /\ req.state.t \in {"missing", "null"} => new.state = old.state
    /\ req.comment.t \in {"missing", "null"} => new.comment = old.comment

C15_UnsuppliedFieldsKept ==
    [][\A req \in FieldRequests :
         /\ resp'.op = "update_todo" /\ update_todo(req, 1) =>
               UnsuppliedKept(Todos("default")[1], Todos("default")'[1], req, TRUE)
         /\ resp'.op = "update_todo_html" /\ update_todo_html(req, 1) =>
               UnsuppliedKept(Todos("default")[1], Todos("default")'[1], req, FALSE)]_vars

(***************************************************************************)
(* C18. An update of an existing todo writes the backing file exactly once *)
(* when the value of at least one field changed, and does not write when   *)
(* no field changed.                                                       *)
(***************************************************************************)
C18_WritesOnlyOnChange ==
    [][resp'.op \in {"update_todo", "update_todo_html"} /\ resp'.status \in {200, 302} =>
          resp'.writes = IF Todos("default")' # Todos("default") THEN 1 ELSE 0]_vars

(***************************************************************************)
(* C18, amended. PATCH of an existing todo writes the backing file exactly *)
(* once when the body supplies at least one of title, done, state, comment *)
(* with a value other than null, whether or not a value changes (a blank   *)
(* title included), and does not write when it supplies none; POST /update *)
(* of an existing todo always writes exactly once.  After the update the   *)
(* file holds the list's sequence.                                         *)
(***************************************************************************)
Given(v) == v.t \notin {"missing", "null"}

C18_WritesWhenSupplied ==
    [][\A req \in FieldRequests :
         /\ resp'.op = "update_todo" /\ update_todo(req, 1) =>
               /\ resp'.writes =
                     IF Given(req.title) \/ Given(req.done) \/ Given(req.state)
                           \/ Given(req.comment)
                     THEN 1 ELSE 0
               /\ disk'[DefaultFile] = json_dumps(Todos("default")')
         /\ resp'.op = "update_todo_html" /\ update_todo_html(req, 1) =>
               /\ resp'.writes = 1
               /\ disk'[DefaultFile] = json_dumps(Todos("default")')]_vars

\* a PATCH that supplied only a blank title, and so changed nothing, has written
C18_Witness ==
    /\ resp.op = "update_todo" /\ resp.status = 200 /\ resp.writes = 1
    /\ Todos("default") = <<Todo(1, <<"a">>, FALSE, <<"GEPLANT">>, <<"c">>)>>

(***************************************************************************)
(* C16. The in-memory sequence keeps insertion order: a successful create  *)
(* appends one todo with done = FALSE at the end and leaves the others as  *)
(* they are; a rejected create changes nothing; toggle and update change   *)
(* at most the first todo with the targeted id, and no position; delete    *)
(* removes exactly that todo and keeps the order of the others.            *)
(***************************************************************************)
\* the position of the first todo of list l with that id, 0 when there is none
FirstWithId(l, todo_id) ==
    IF todo_id \in Ids(l)
    THEN CHOOSE k \in 1..Len(Todos(l)) :
            /\ Todos(l)[k].id = todo_id
            /\ \A j \in 1..(k - 1) : Todos(l)[j].id # todo_id
    ELSE 0

OrderKept ==
    \A l \in ListNames :
        IdStep(CrudOps) /\ resp'.list = l =>
            /\ resp'.op \in CreateOps =>
                  IF resp'.writes = 1
                  THEN /\ Len(Todos(l)') = Len(Todos(l)) + 1
                       /\ SubSeq(Todos(l)', 1, Len(Todos(l))) = Todos(l)
                       /\ Todos(l)'[Len(Todos(l)')].done = FALSE
                       /\ Todos(l)'[Len(Todos(l)')].id = resp'.id
                  ELSE Todos(l)' = Todos(l)
            /\ resp'.op \in {"toggle_todo", "update_todo", "update_todo_html"} =>
                  /\ Len(Todos(l)') = Len(Todos(l))
                  /\ \A i \in 1..Len(Todos(l)) :
                        /\ Todos(l)'[i].id = Todos(l)[i].id
                        /\ i # FirstWithId(l, resp'.id) => Todos(l)'[i] = Todos(l)[i]
            /\ resp'.op \in {"delete_todo", "delete_todo_api"} =>
                  IF FirstWithId(l, resp'.id) = 0
                  THEN Todos(l)' = Todos(l)
                  ELSE Todos(l)' = RemoveAt(Todos(l), FirstWithId(l, resp'.id))

C16_InsertionOrderKept == [][OrderKept]_vars

\* a create has just appended a todo behind one that was created before it and
\* toggled since
C16_Witness ==
    /\ resp.op \in CreateOps /\ resp.writes = 1
    /\ Len(Todos(resp.list)) = 2
    /\ Todos(resp.list)[1].done
    /\ Todos(resp.list)[1].id < Todos(resp.list)[2].id

(***************************************************************************)
(* C19. A list is loaded by the first request that resolves to it and is   *)
(* cached from then on: a request never loads a list it does not resolve   *)
(* to, and while a list is loaded no request drops it, changes its data    *)
(* file or replaces its sequence or id counter by what the file holds: a   *)
(* request that does not write leaves the list's state as it is, and the   *)
(* id counter only moves on by one at a successful create.                 *)
(***************************************************************************)
RequestOps == CrudOps \cup {"list_todos"}

LoadedOnFirstAccess ==
    \A l \in ListNames :
        resp'.op \in RequestOps /\ ~_list_states[l].loaded =>
            IF resp'.list = l /\ resp'.status # 500
            THEN /\ _list_states'[l].loaded
                 /\ _list_states'[l].data_file = _list_data_file(W, l)
            ELSE _list_states'[l] = _list_states[l]

CacheKept ==
    \A l \in ListNames :
        resp'.op \in RequestOps /\ _list_states[l].loaded =>
            /\ _list_states'[l].loaded
            /\ _list_states'[l].data_file = _list_states[l].data_file
            /\ _list_states'[l].id_counter =
                  IF CreatedStep /\ resp'.list = l
                  THEN _list_states[l].id_counter + 1
                  ELSE _list_states[l].id_counter
            /\ resp'.writes = 0 \/ resp'.list # l =>
                  _list_states'[l] = _list_states[l]

C19_LoadedOnceThenCached == [][LoadedOnFirstAccess /\ CacheKept]_vars

\* a read request was just served from a cached list whose id counter is ahead of
\* what a load of its file would give, the other list being cached as well
C19_Witness ==
    /\ resp.op = "list_todos" /\ resp.status = 200
    /\ \A l \in Range(LISTS) : _list_states[l].loaded
    /\ _list_states[resp.list].id_counter > max_id(Todos(resp.list)) + 1

(***************************************************************************)
(* C20. Every todo of an in-memory sequence satisfies the data model, also *)
(* after loading a file whose records lack fields: its id is a positive    *)
(* integer, its title is a non-empty stripped string, done is a boolean,   *)
(* and its state, stripped and lower-cased, is an allowed state.           *)
(***************************************************************************)
InDataModel(todo) ==
    /\ todo.id > 0
    /\ todo.title # <<>> /\ strip(todo.title) = todo.title
    /\ todo.done \in BOOLEAN
    /\ lower(strip(todo.state)) \in ALLOWED_STATES

C20_TodosInDataModel ==
    \A l \in ListNames : \A i \in 1..Len(Todos(l)) : InDataModel(Todos(l)[i])

====
